---- MODULE Spec2Model ----
(***************************************************************************)
(* Breakpoint bookkeeping of CodeEditor (src/src/codeeditor.cpp).          *)
(*                                                                         *)
(* State: the ordered set m_breakpoints of block numbers, and the block    *)
(* count of the document the editor shows.  Operations: a click in the     *)
(* breakpoint gutter (breakpointClick, with forceState 0 = toggle,         *)
(* 1 = add, 2 = remove), the "Remove all breakpoints" action, an edit of   *)
(* the document that changes its block count, and updateSidebar, whose     *)
(* trailing loop drops the breakpoints of blocks that no longer exist.     *)
(*                                                                         *)
(* Pixel positions, the content offset and the block height are qreal/int  *)
(* values of the toolkit; they are modelled as integers, and the           *)
(* conversion of the qreal quotient to int as truncation toward zero.      *)
(***************************************************************************)
EXTENDS Integers, FiniteSets, Sequences, TLC

\* ------------------------------------------------------------------ bounds
MaxLines == 3    \* the document has 1..MaxLines blocks
MaxPixelY == 4   \* a click's y coordinate is at most MaxPixelY
MaxAbove == 1    \* ... and at least -MaxAbove (release above the widget)
MaxOffset == 1   \* contentOffset().y() lies in -MaxOffset..MaxOffset
MaxHeight == 2   \* the block height lies in 1..MaxHeight

PixelYs == (-MaxAbove)..MaxPixelY
Offsets == (-MaxOffset)..MaxOffset
Heights == 1..MaxHeight
ForceStates == 0..2

VARIABLES
  m_breakpoints,  \* std::set<int> CodeEditor::m_breakpoints
  blockCount,     \* QPlainTextEdit::blockCount() of the document
  pc,             \* "idle", or "trim" inside the loop of updateSidebar
  reconciled,     \* updateSidebar has run since the last change of blockCount
  last,           \* record of the last operation: its kind, inputs and the set before it
  repeated,       \* the last click repeated the click before it (same forceState, same block)
  probe           \* one click request and the block it resolves to (MapSpec only)

vars == <<m_breakpoints, blockCount, pc, reconciled, last, repeated, probe>>

\* ------------------------------------------------------- ordered-set helpers
\* *(m_breakpoints.rbegin()): the largest element of a non-empty set
rbegin(S) == CHOOSE x \in S : \A y \in S : y <= x

\* the smallest element of a non-empty set, what *(m_breakpoints.begin()) would be
begin(S) == CHOOSE x \in S : \A y \in S : x <= y

\* ------------------------------------------------------------ breakpointClick
\* conversion of the qreal quotient a / b (b > 0) to int: truncation toward zero
TruncDiv(a, b) == IF a >= 0 THEN a \div b ELSE -((-a) \div b)

indexAlwaysSubtract(firstVisible, y, offset, height) == TruncDiv(y - offset, height)

\* lines 203-208: the number of blocks between the first visible block and the click
index(firstVisible, y, offset, height) ==
  IF firstVisible = 0
    THEN TruncDiv(y - offset, height)
    ELSE TruncDiv(y + offset, height)

nextUnbounded(block, n) == block + 1

\* QTextBlock::next() in a document of n blocks; -1 is the invalid block, whose
\* blockNumber() is -1 and whose next() is invalid again
next(block, n) == IF block < 0 \/ block + 1 >= n THEN -1 ELSE block + 1

isValid(block) == block >= 0

\* lines 210-215: step idx blocks forward (not at all when idx <= 0); the result is
\* the block number the click acts on, -1 when the walk leaves the document
RECURSIVE walk(_, _, _)
walk(block, idx, n) ==
  IF idx > 0 THEN walk(next(block, n), idx - 1, n) ELSE block

blockNumber(firstVisible, y, offset, height, n) ==
  walk(firstVisible, index(firstVisible, y, offset, height), n)

setClickToggleInserts(S, b, forceState) ==
  IF ~isValid(b) THEN S
  ELSE IF forceState = 1 THEN S \cup {b}
  ELSE IF forceState = 2 THEN (IF b \in S THEN S \ {b} ELSE S)
  ELSE S \cup {b}

setClickRemoveKeeps(S, b, forceState) ==
  IF ~isValid(b) THEN S
  ELSE IF forceState = 1 THEN S \cup {b}
  ELSE IF forceState = 2 THEN S
  ELSE IF b \in S THEN S \ {b} ELSE S \cup {b}

setClickSpill(S, b, forceState) ==
  IF ~isValid(b) THEN S
  ELSE IF forceState = 1 THEN S \cup {b}
  ELSE IF forceState = 2 THEN {x \in S : x < b}
  ELSE IF b \in S THEN {x \in S : x < b} ELSE S \cup {b}

setClickUnchecked(S, b, forceState) ==
  IF forceState = 1 THEN S \cup {b}
  ELSE IF forceState = 2 THEN S \ {b}
  ELSE IF b \in S THEN S \ {b} ELSE S \cup {b}

\* lines 216-230: the set after a click that resolved to block b
setClick(S, b, forceState) ==
  IF ~isValid(b) THEN S
  ELSE IF forceState = 1 THEN S \cup {b}
  ELSE IF forceState = 2 THEN (IF b \in S THEN S \ {b} ELSE S)
  ELSE IF b \in S THEN S \ {b} ELSE S \cup {b}

\* lines 196-233
breakpointClick ==
  /\ pc = "idle"
  /\ \E firstVisible \in 0..(blockCount - 1), y \in PixelYs, offset \in Offsets,
        height \in Heights, forceState \in ForceStates :
       LET idx == index(firstVisible, y, offset, height)
           b   == blockNumber(firstVisible, y, offset, height, blockCount)
       IN /\ m_breakpoints' = setClick(m_breakpoints, b, forceState)
          /\ last' = [op |-> "click", forceState |-> forceState,
                      firstVisible |-> firstVisible, index |-> idx, line |-> b,
                      pre |-> m_breakpoints]
          /\ repeated' = (/\ last.op = "click"
                          /\ last.forceState = forceState
                          /\ last.line = b)
  /\ UNCHANGED <<blockCount, pc, reconciled, probe>>

\* ----------------------------------------------------------- clearBreakpoints
clearKeepsFirst(S) == IF S = {} THEN {} ELSE {begin(S)}

\* CodeEditor::clearBreakpoints(), called at line 251: empties the set
clearBreakpoints(S) == {}

\* lines 250-253: the "Remove all breakpoints" action
removeAllAction ==
  /\ pc = "idle"
  /\ m_breakpoints' = clearBreakpoints(m_breakpoints)
  /\ last' = [op |-> "clear", pre |-> m_breakpoints]
  /\ repeated' = FALSE
  /\ UNCHANGED <<blockCount, pc, reconciled, probe>>

\* --------------------------------------------------------------- the document
\* an edit of the document that changes its block count (signalled at lines 18-19)
blockCountChanged ==
  /\ pc = "idle"
  /\ \E n \in 1..MaxLines :
       /\ n # blockCount
       /\ blockCount' = n
  /\ reconciled' = FALSE
  /\ last' = [op |-> "edit", pre |-> m_breakpoints]
  /\ repeated' = FALSE
  /\ UNCHANGED <<m_breakpoints, pc, probe>>

\* -------------------------------------------------------------- updateSidebar
trimCondOffByOne(S, n) == S # {} /\ rbegin(S) > n

trimCondInclusive(S, n) == S # {} /\ rbegin(S) >= (n - 1)

\* lines 102-103: the loop condition
trimCond(S, n) == S # {} /\ rbegin(S) > (n - 1)

eraseFirst(S) == S \ {begin(S)}

\* line 104: m_breakpoints.erase(std::prev(m_breakpoints.end()))
eraseLast(S) == S \ {rbegin(S)}

\* lines 87-100: entry of the slot; the scroll/update calls and updateSidebarWidth
\* touch the widgets only
updateSidebar ==
  /\ pc = "idle"
  /\ pc' = "trim"
  /\ last' = [op |-> "updateSidebar", pre |-> m_breakpoints, removals |-> 0,
              inspected |-> {}]
  /\ repeated' = FALSE
  /\ UNCHANGED <<m_breakpoints, blockCount, reconciled, probe>>

\* lines 102-105: one evaluation of the loop condition, and the loop body when it holds
trimStep ==
  /\ pc = "trim"
  /\ IF trimCond(m_breakpoints, blockCount)
       THEN /\ m_breakpoints' = eraseLast(m_breakpoints)
            /\ last' = [last EXCEPT !.removals = @ + 1,
                                    !.inspected = @ \cup {rbegin(m_breakpoints)}]
            /\ UNCHANGED <<pc, reconciled>>
       ELSE /\ pc' = "idle"
            /\ reconciled' = TRUE
            /\ last' = [last EXCEPT !.inspected =
                          IF m_breakpoints = {} THEN @ ELSE @ \cup {rbegin(m_breakpoints)}]
            /\ UNCHANGED m_breakpoints
  /\ UNCHANGED <<blockCount, repeated, probe>>

\* ------------------------------------------------------------- specifications
NoProbe == [state |-> "none"]

\* line 14-41: after construction the set is empty and the document has one block
Init ==
  /\ m_breakpoints = {}
  /\ blockCount = 1
  /\ pc = "idle"
  /\ reconciled = FALSE
  /\ last = [op |-> "init", pre |-> {}]
  /\ repeated = FALSE
  /\ probe = NoProbe

Next ==
  \/ breakpointClick
  \/ removeAllAction
  \/ blockCountChanged
  \/ updateSidebar
  \/ trimStep

Spec == Init /\ [][Next]_vars

\* One click request at a time, for the mapping from a pixel position to a block:
\* the request is drawn from every combination of first visible block, click
\* position, content offset and block height, and resolved as lines 198-215 do.
MapInit ==
  /\ m_breakpoints = {}
  /\ blockCount \in 1..MaxLines
  /\ pc = "idle"
  /\ reconciled = FALSE
  /\ last = [op |-> "init", pre |-> {}]
  /\ repeated = FALSE
  /\ probe \in [state : {"pending"}, firstVisible : 0..(blockCount - 1), y : PixelYs,
                 offset : Offsets, height : Heights, line : {-1}]

\* lines 198-215 on the pending request
resolveClick ==
  /\ probe.state = "pending"
  /\ probe' = [probe EXCEPT !.state = "resolved",
                            !.line = blockNumber(probe.firstVisible, probe.y, probe.offset,
                                                 probe.height, blockCount)]
  /\ UNCHANGED <<m_breakpoints, blockCount, pc, reconciled, last, repeated>>

MapNext == resolveClick

MapSpec == MapInit /\ [][MapNext]_vars

\* the slot runs to completion on the one UI thread: the loop is never abandoned
FairSpec == Spec /\ WF_vars(trimStep)

\* ---------------------------------------------------------------- properties
afterTrim == pc = "idle" /\ last.op = "updateSidebar"

afterClick == last.op = "click"

\* C1: when updateSidebar has finished on a set S with the document at N blocks,
\* the set is exactly the elements of S that are < N.
C1_ReconcileExact ==
  afterTrim => m_breakpoints = {x \in last.pre : x < blockCount}

C1_Witness ==
  /\ afterTrim
  /\ \E x \in last.pre : x >= blockCount
  /\ \E x \in last.pre : x < blockCount

\* C2: once updateSidebar has run for the document's current block count, every
\* breakpoint is a block number of the document, whatever clicks, clears and
\* edits came before and whatever clicks and clears come after.
C2_AllValid ==
  reconciled => \A x \in m_breakpoints : 0 <= x /\ x <= blockCount - 1

C2_Witness ==
  /\ reconciled
  /\ afterClick
  /\ blockCount < MaxLines
  /\ (blockCount - 1) \in m_breakpoints
  /\ last.firstVisible + last.index >= blockCount

\* C3: a toggle click (forceState 0) on block x removes x when it is in the set
\* and inserts it otherwise, and a second toggle click on the same block right
\* after it gives back the set from before the first.
C3_ToggleOnce ==
  (afterClick /\ last.forceState = 0 /\ isValid(last.line)) =>
     m_breakpoints = IF last.line \in last.pre
                       THEN last.pre \ {last.line}
                       ELSE last.pre \cup {last.line}

C3_ToggleTwice ==
  (last'.op = "click" /\ last'.forceState = 0 /\ repeated') =>
     m_breakpoints' = last.pre

C3_Toggle == [](C3_ToggleOnce) /\ [][C3_ToggleTwice]_vars

C3_Witness ==
  /\ afterClick
  /\ last.forceState = 0
  /\ repeated
  /\ isValid(last.line)
  /\ m_breakpoints # {}
  /\ last.pre # m_breakpoints

\* C4: after an add click (forceState 1) on block x, x is in the set, and after
\* a remove click (forceState 2) on x it is not, whatever the set held; the
\* same click again changes nothing.
C4_ForceOnce ==
  (afterClick /\ isValid(last.line)) =>
     /\ last.forceState = 1 => last.line \in m_breakpoints
     /\ last.forceState = 2 => last.line \notin m_breakpoints

C4_ForceTwice ==
  (last'.op = "click" /\ last'.forceState \in {1, 2} /\ isValid(last'.line) /\ repeated') =>
     m_breakpoints' = m_breakpoints

C4_Force == [](C4_ForceOnce) /\ [][C4_ForceTwice]_vars

C4_Witness ==
  /\ afterClick
  /\ last.forceState = 2
  /\ isValid(last.line)
  /\ last.line \in last.pre
  /\ m_breakpoints # {}

\* C5: when every breakpoint is already < N, updateSidebar leaves the set as it
\* was and removes nothing.
C5_ReconcileNoOp ==
  (afterTrim /\ \A x \in last.pre : x < blockCount) =>
     (m_breakpoints = last.pre /\ last.removals = 0)

C5_Witness ==
  /\ afterTrim
  /\ last.pre # {}
  /\ \A x \in last.pre : x < blockCount
  /\ (blockCount - 1) \in last.pre

\* C6: after "Remove all breakpoints" no block number is in the set.
C6_Clear ==
  last.op = "clear" => \A x \in (last.pre \cup 0..MaxLines) : x \notin m_breakpoints

C6_Witness == last.op = "clear" /\ Cardinality(last.pre) >= 2

\* the adjusted offset of a request: the content offset is subtracted when the
\* first visible block is block 0 and added otherwise
adjusted(r) == IF r.firstVisible = 0 THEN r.y - r.offset ELSE r.y + r.offset

\* the two scenarios of the mapping, in documents long enough to hold the block
C7_Scenarios ==
  /\ blockNumber(0, 47, 5, 20, 3) = 2
  /\ blockNumber(10, 34, 4, 15, 13) = 12

\* C7 as stated: the click resolves to firstVisible + adjusted div height, for
\* every position, offset and positive height (div as C's integer division).
C7_AsStated ==
  probe.state = "resolved" =>
     probe.line = probe.firstVisible + TruncDiv(adjusted(probe), probe.height)

\* C7 as amended: with k = adjusted div height (truncating), the click resolves
\* to firstVisible + k when k >= 0 and the document has such a block, to
\* firstVisible itself when k < 0, and to no block at all when firstVisible + k
\* is past the last block.
C7_Amended ==
  probe.state = "resolved" =>
     LET k == TruncDiv(adjusted(probe), probe.height)
         target == probe.firstVisible + (IF k > 0 THEN k ELSE 0)
     IN /\ IF target <= blockCount - 1
             THEN probe.line = target
             ELSE ~isValid(probe.line)
        /\ C7_Scenarios

C7_Witness ==
  /\ probe.state = "resolved"
  /\ probe.firstVisible > 0
  /\ probe.offset # 0
  /\ probe.line = probe.firstVisible + TruncDiv(probe.y + probe.offset, probe.height)
  /\ probe.line # probe.firstVisible + TruncDiv(probe.y - probe.offset, probe.height)
  /\ probe.line > probe.firstVisible

\* C8: a click changes the membership of the block it resolves to and of no
\* other block number.
C8_Frame ==
  afterClick =>
     \A y \in (last.pre \cup m_breakpoints \cup 0..MaxLines) :
        y # last.line => ((y \in m_breakpoints) <=> (y \in last.pre))

C8_Witness ==
  /\ afterClick
  /\ isValid(last.line)
  /\ last.pre # m_breakpoints
  /\ \E a \in last.pre : a < last.line
  /\ \E b \in last.pre : b > last.line

\* C9: the loop of updateSidebar terminates; each of its steps that changes the
\* set removes the current maximum, which is > N - 1; it removes as many
\* elements as the set had elements >= N; and the only element below N it reads
\* is the largest one.
C9_Terminates == (pc = "trim") ~> (pc = "idle")

C9_RemovesMax ==
  (pc = "trim" /\ m_breakpoints' # m_breakpoints) =>
     /\ rbegin(m_breakpoints) > blockCount - 1
     /\ m_breakpoints' = m_breakpoints \ {rbegin(m_breakpoints)}

C9_Count ==
  afterTrim =>
     LET gone == {x \in last.pre : x >= blockCount}
         kept == {x \in last.pre : x < blockCount}
     IN /\ last.removals = Cardinality(gone)
        /\ last.inspected \subseteq (gone \cup (IF kept = {} THEN {} ELSE {rbegin(kept)}))

C9_Trim == C9_Terminates /\ [](C9_Count) /\ [][C9_RemovesMax]_vars

C9_Witness ==
  /\ afterTrim
  /\ last.removals >= 2
  /\ m_breakpoints # {}
  /\ Cardinality(last.inspected) = last.removals + 1

\* C10: a click that resolves past the last block of the document leaves the
\* set unchanged, a click whose computed block count is zero or negative acts
\* on the first visible block, and no click inserts a number that is not a
\* block number of the document.
C10_ClickInRange ==
  afterClick =>
     /\ (last.index > 0 /\ last.firstVisible + last.index > blockCount - 1) =>
           (~isValid(last.line) /\ m_breakpoints = last.pre)
     /\ last.index <= 0 => last.line = last.firstVisible
     /\ \A x \in (m_breakpoints \ last.pre) : 0 <= x /\ x <= blockCount - 1

C10_Witness ==
  /\ afterClick
  /\ last.forceState = 1
  /\ last.firstVisible + last.index > blockCount - 1
  /\ last.pre # {}
  /\ m_breakpoints = last.pre

====
